---- MODULE Spec2Model ----
(***************************************************************************)
(* Model of DocumentGeneratorApp (src/src/document-generator/main.py).     *)
(*                                                                         *)
(* Python strings are modelled as sequences of one-character strings, so   *)
(* that strip / replace / isalnum / endswith are computed character by     *)
(* character as the code computes them.                                    *)
(***************************************************************************)
EXTENDS Integers, Sequences, FiniteSets, TLC

(***************************************************************************)
(* Bounds of the model                                                     *)
(***************************************************************************)
MaxCols == 3
MaxRows == 2
MaxTemplates == 2
MaxTimeout == 2
MaxEvents == 6
MaxLoads == 1

(***************************************************************************)
(* Characters and string helpers                                           *)
(***************************************************************************)
Digits == <<"0", "1", "2", "3", "4", "5", "6", "7", "8", "9">>

IsDigit(c) == \E i \in 1..Len(Digits) : Digits[i] = c

IsAlpha(c) ==
    c \in {"A", "B", "C", "D", "E", "F", "G", "H", "I", "J", "K", "L", "M",
           "N", "O", "P", "Q", "R", "S", "T", "U", "V", "W", "X", "Y", "Z",
           "a", "b", "c", "d", "e", "f", "g", "h", "i", "j", "k", "l", "m",
           "n", "o", "p", "q", "r", "s", "t", "u", "v", "w", "x", "y", "z"}

IsAlnum(c) == IsAlpha(c) \/ IsDigit(c)

IsSpace(c) == c = " "

\* str(n) for a natural number n
RECURSIVE IntToStr(_)
IntToStr(n) ==
    IF n < 10 THEN <<Digits[n + 1]>>
    ELSE IntToStr(n \div 10) \o <<Digits[(n % 10) + 1]>>

RECURSIVE LStrip(_)
LStrip(s) ==
    IF s # <<>> /\ IsSpace(Head(s)) THEN LStrip(Tail(s)) ELSE s

RECURSIVE RStrip(_)
RStrip(s) ==
    IF s # <<>> /\ IsSpace(s[Len(s)]) THEN RStrip(SubSeq(s, 1, Len(s) - 1))
    ELSE s

\* str.strip()
Strip(s) == RStrip(LStrip(s))

StartsWith(s, p) ==
    Len(p) <= Len(s) /\ SubSeq(s, 1, Len(p)) = p

\* str.endswith(p)
EndsWith(s, p) ==
    Len(p) <= Len(s) /\ SubSeq(s, Len(s) - Len(p) + 1, Len(s)) = p

\* str.replace(old, new) for a non-empty old: leftmost, non-overlapping
RECURSIVE Replace(_, _, _)
Replace(s, old, new) ==
    IF s = <<>> THEN <<>>
    ELSE IF StartsWith(s, old)
         THEN new \o Replace(SubSeq(s, Len(old) + 1, Len(s)), old, new)
         ELSE <<Head(s)>> \o Replace(Tail(s), old, new)

(***************************************************************************)
(* Identifier sanitizer: the loop of _on_excel_upload                      *)
(***************************************************************************)
\* self.excel_data.columns.str.strip()
StripColumns(cols) == [i \in 1..Len(cols) |-> Strip(cols[i])]

IdentChar(c) == IF IsAlnum(c) \/ c = "_" THEN c ELSE "_"

\* One label up to the collision handling; the caller guarantees that the
\* stripped label is not empty (valid_col[0] raises IndexError otherwise).
SanitizeLabel(col) ==
    LET v1 == Replace(Replace(Strip(col), <<" ">>, <<"_">>), <<"-">>, <<"_">>)
        v2 == IF IsDigit(v1[1]) THEN <<"_">> \o v1 ELSE v1
    IN  [i \in 1..Len(v2) |-> IdentChar(v2[i])]

\* valid_col[0] raises IndexError on an empty string
LabelRaises(col) ==
    Replace(Replace(Strip(col), <<" ">>, <<"_">>), <<"-">>, <<"_">>) = <<>>

\* The collision step with the counter of the name left as it was
Disambiguate_NoIncrement(valid_col, seen) ==
    IF valid_col \in DOMAIN seen
    THEN [name |-> valid_col \o <<"_">> \o IntToStr(seen[valid_col] + 1),
          seen |-> seen]
    ELSE [name |-> valid_col,
          seen |-> (valid_col :> 0) @@ seen]

\* The collision step: seen is the dict of the loop, as a function.
Disambiguate(valid_col, seen) ==
    IF valid_col \in DOMAIN seen
    THEN [name |-> valid_col \o <<"_">> \o IntToStr(seen[valid_col] + 1),
          seen |-> [seen EXCEPT ![valid_col] = @ + 1]]
    ELSE [name |-> valid_col,
          seen |-> (valid_col :> 0) @@ seen]

\* for col in original_columns: ...; the result is valid_columns, or the
\* exception of the first label that raises.
RECURSIVE SanitizeLoop(_, _, _, _)
SanitizeLoop(cols, i, seen, valid_columns) ==
    IF i > Len(cols) THEN [ok |-> TRUE, cols |-> valid_columns]
    ELSE IF LabelRaises(cols[i]) THEN [ok |-> FALSE, cols |-> valid_columns]
    ELSE LET d == Disambiguate(SanitizeLabel(cols[i]), seen)
         IN  SanitizeLoop(cols, i + 1, d.seen, Append(valid_columns, d.name))

SanitizeColumns(original_columns) ==
    SanitizeLoop(original_columns, 1, <<>>, <<>>)

\* ~columns.duplicated(): the positions that keep their column
KeptPositions(cols) ==
    {i \in 1..Len(cols) : \A j \in 1..(i - 1) : cols[j] # cols[i]}

RECURSIVE SelectPositions(_, _, _)
SelectPositions(s, keep, i) ==
    IF i > Len(s) THEN <<>>
    ELSE (IF i \in keep THEN <<s[i]>> ELSE <<>>)
         \o SelectPositions(s, keep, i + 1)

\* excel_data.loc[:, ~excel_data.columns.duplicated()]
DropDuplicated(cols) == SelectPositions(cols, KeptPositions(cols), 1)

(***************************************************************************)
(* Session state                                                           *)
(***************************************************************************)
VARIABLES
    conversion_timeout,     \* self.conversion_timeout, in seconds
    excel_data,             \* self.excel_data: NoData or [columns, rows]
    data_table,             \* self.data_table.value
    selection,              \* self.data_table.selection, row positions from 1
    templates,              \* self.templates
    template_table,         \* self.template_table.value
    preview_btn_disabled,   \* self.preview_btn.disabled
    file_download_disabled, \* self.file_download.disabled
    pdf_preview_area,       \* self.pdf_preview_area: the cards shown
    status,                 \* self.status.object
    notification,           \* the last pn.state.notifications call
    run,                    \* position and locals of the run handler
    returned,               \* what _download_documents last returned
    lastLoad,               \* locals of the last _on_excel_upload call
    conv,                   \* arguments and outcome of the last _convert_to_pdf
    events,                 \* how many user events the session has handled
    naming,                 \* arguments and outcome of the last
                            \* _get_output_filename
    tmp_files               \* the temporary files and directories on disk

vars == <<conversion_timeout, excel_data, data_table, selection, templates,
          template_table, preview_btn_disabled, file_download_disabled,
          pdf_preview_area, status, notification, run, returned, lastLoad,
          conv, events, naming, tmp_files>>

\* None for self.excel_data / data_table.value; a missing cell value
NoData == [none |-> TRUE]
NaN == <<"NaN">>

\* self.status.object as a record: the kind of text, the count it states,
\* the rename warnings it lists and the text of the exception it reports.
Status(kind, n, warnings, msg) ==
    [kind |-> kind, n |-> n, warnings |-> warnings, msg |-> msg]

NoRun ==
    [pc |-> "idle", kind |-> "none", rows |-> <<>>, configs |-> <<>>,
     t |-> 1, r |-> 1, count |-> 0, zip |-> <<>>, ok |-> 0, failed |-> 0,
     ended |-> "none", T |-> 0, R |-> 0]

NoLoad == [raw |-> <<>>, original |-> <<>>, valid |-> <<>>, ended |-> "none"]

NoConv ==
    [timeout |-> 0, docx |-> <<>>, p |-> 0, rc |-> 0, appear |-> 0,
     stderr |-> "", result |-> "none", exc |-> "", msg |-> "", path |-> <<>>,
     polls |-> 0, elapsed |-> 0, exists |-> FALSE]

NoReturn == [none |-> TRUE]

NoNaming ==
    [naming_template |-> <<>>, row_data |-> <<>>, extension |-> <<>>,
     result |-> "none", filename |-> <<>>]

\* len(self.excel_data)
NumRows(d) == Len(d.rows)

\* _update_button_states: the value given to the three disabled flags
ButtonsDisabled(ed, tpls, dt, sel) ==
    LET has_data == ed # NoData /\ NumRows(ed) > 0
        has_templates == Len(tpls) > 0
        has_selection == IF dt # NoData THEN Len(sel) > 0 ELSE FALSE
    IN  ~(has_data /\ has_templates /\ has_selection)

RECURSIVE KeepInRange(_, _)
KeepInRange(sel, n) ==
    IF sel = <<>> THEN <<>>
    ELSE (IF Head(sel) <= n THEN <<Head(sel)>> ELSE <<>>)
         \o KeepInRange(Tail(sel), n)

\* for orig, valid in zip(original_columns, valid_columns): if orig != valid
RECURSIVE RenameWarnings(_, _, _)
RenameWarnings(original, valid, i) ==
    IF i > Len(original) \/ i > Len(valid) THEN <<>>
    ELSE (IF original[i] # valid[i] THEN <<(<<original[i], valid[i]>>)>>
          ELSE <<>>)
         \o RenameWarnings(original, valid, i + 1)

\* Handlers started whatever the run handler is doing
Idle_Always == TRUE

\* No run handler is executing: the handlers are plain synchronous
\* callbacks (on_click, FileDownload callback, param.watch) and run one at
\* a time on the server loop, each to its end
Idle == run.pc = "idle"

(***************************************************************************)
(* _on_excel_upload                                                        *)
(***************************************************************************)
\* labels, rows: what pd.read_excel returns for the uploaded blob;
\* parse_ok = FALSE: pd.read_excel raises. Assigning data_table.value makes
\* the table drop the selected positions the new frame does not have.
OnExcelUpload(labels, rows, parse_ok) ==
    /\ Idle
    /\ LET original == StripColumns(labels)
           san == SanitizeColumns(original)
           kept == KeptPositions(san.cols)
           loaded == [columns |-> DropDuplicated(san.cols),
                      rows |-> [r \in 1..Len(rows) |->
                                   SelectPositions(rows[r], kept, 1)]]
           sel == KeepInRange(selection, Len(rows))
       IN  IF ~parse_ok
           THEN /\ status' = Status("Error", 0, <<>>, "read_excel")
                /\ notification' = "error"
                /\ lastLoad' = [raw |-> labels, original |-> <<>>,
                                valid |-> <<>>, ended |-> "parse_error"]
                /\ UNCHANGED <<excel_data, data_table, selection,
                               preview_btn_disabled, file_download_disabled>>
           ELSE IF ~san.ok
           THEN /\ excel_data' = [columns |-> original, rows |-> rows]
                /\ status' = Status("Error", 0, <<>>, "IndexError")
                /\ notification' = "error"
                /\ lastLoad' = [raw |-> labels, original |-> original,
                                valid |-> san.cols, ended |-> "error"]
                /\ UNCHANGED <<data_table, selection, preview_btn_disabled,
                               file_download_disabled>>
           ELSE /\ excel_data' = loaded
                /\ data_table' = loaded
                /\ selection' = sel
                /\ status' = Status("Loaded", NumRows(loaded),
                                    RenameWarnings(original, san.cols, 1), "")
                /\ preview_btn_disabled' =
                       ButtonsDisabled(loaded, templates, loaded, sel)
                /\ file_download_disabled' =
                       ButtonsDisabled(loaded, templates, loaded, sel)
                /\ notification' = "success"
                /\ lastLoad' = [raw |-> labels, original |-> original,
                                valid |-> san.cols, ended |-> "ok"]
    /\ UNCHANGED <<conversion_timeout, templates, template_table,
                   pdf_preview_area, run, returned, conv, tmp_files>>

(***************************************************************************)
(* _on_template_upload, _clear_templates, table edits, selection           *)
(***************************************************************************)
Ext_docx == <<".", "d", "o", "c", "x">>
Ext_pdf == <<".", "p", "d", "f">>

DotPositions(s) == {i \in 1..Len(s) : s[i] = "."}

LastDot(s) == CHOOSE i \in DotPositions(s) : \A j \in DotPositions(s) : j <= i

\* Path(filename).stem
Stem(filename) ==
    IF DotPositions(filename) \subseteq {1} \/ LastDot(filename) = Len(filename)
    THEN filename
    ELSE SubSeq(filename, 1, LastDot(filename) - 1)

\* self.excel_data.columns[0] raises IndexError on a dataset without columns
FirstColRaises == excel_data # NoData /\ excel_data.columns = <<>>

\* f"{base_name}_" + "{{ " + first_col + " }}"
DefaultNaming(filename) ==
    LET first_col == IF excel_data # NoData THEN excel_data.columns[1]
                     ELSE <<"i", "d">>
    IN  Stem(filename) \o <<"_">> \o <<"{", "{", " ">> \o first_col
        \o <<" ", "}", "}">>

\* for filename, file_bytes in zip(filenames, files): the two lists after
\* the loop, and whether an iteration raised. The blob of a file is named
\* by the file.
RECURSIVE TemplateLoop(_, _, _, _)
TemplateLoop(files, i, tpls, current_templates) ==
    IF i > Len(files)
    THEN [ok |-> TRUE, templates |-> tpls, current |-> current_templates]
    ELSE IF FirstColRaises
    THEN [ok |-> FALSE, templates |-> tpls, current |-> current_templates]
    ELSE TemplateLoop(files, i + 1,
             Append(tpls, [File_Name |-> files[i],
                           Naming_Template |-> DefaultNaming(files[i]),
                           bytes |-> files[i]]),
             Append(current_templates,
                    [File_Name |-> files[i],
                     Naming_Template |-> DefaultNaming(files[i])]))

OnTemplateUpload(files) ==
    /\ Idle
    /\ Len(templates) + Len(files) <= MaxTemplates
    /\ LET res == TemplateLoop(files, 1, templates, template_table)
       IN  /\ templates' = res.templates
           /\ IF res.ok
              THEN /\ template_table' = res.current
                   /\ status' = Status("TemplatesLoaded", Len(res.templates),
                                       <<>>, "")
                   /\ preview_btn_disabled' =
                          ButtonsDisabled(excel_data, res.templates,
                                          data_table, selection)
                   /\ file_download_disabled' =
                          ButtonsDisabled(excel_data, res.templates,
                                          data_table, selection)
                   /\ notification' = "success"
              ELSE /\ status' = Status("Error", 0, <<>>, "IndexError")
                   /\ notification' = "error"
                   /\ UNCHANGED <<template_table, preview_btn_disabled,
                                  file_download_disabled>>
    /\ UNCHANGED <<conversion_timeout, excel_data, data_table, selection,
                   pdf_preview_area, run, returned, lastLoad, conv,
                   tmp_files>>

\* _clear_templates without the reset of the template table (line 239)
ClearTemplates_TableKept ==
    /\ Idle
    /\ templates' = <<>>
    /\ status' = Status("TemplatesCleared", 0, <<>>, "")
    /\ preview_btn_disabled' =
           ButtonsDisabled(excel_data, <<>>, data_table, selection)
    /\ file_download_disabled' =
           ButtonsDisabled(excel_data, <<>>, data_table, selection)
    /\ notification' = "info"
    /\ UNCHANGED <<conversion_timeout, excel_data, data_table, selection,
                   template_table, pdf_preview_area, run, returned, lastLoad,
                   conv, tmp_files>>

ClearTemplates ==
    /\ Idle
    /\ templates' = <<>>
    /\ template_table' = <<>>
    /\ status' = Status("TemplatesCleared", 0, <<>>, "")
    /\ preview_btn_disabled' =
           ButtonsDisabled(excel_data, <<>>, data_table, selection)
    /\ file_download_disabled' =
           ButtonsDisabled(excel_data, <<>>, data_table, selection)
    /\ notification' = "info"
    /\ UNCHANGED <<conversion_timeout, excel_data, data_table, selection,
                   pdf_preview_area, run, returned, lastLoad, conv,
                   tmp_files>>

\* The user edits the 'Naming Template' cell of row i of the template table.
EditNamingTemplate(i, pattern) ==
    /\ Idle
    /\ i \in 1..Len(template_table)
    /\ template_table[i].Naming_Template # pattern
    /\ template_table' =
           [template_table EXCEPT ![i].Naming_Template = pattern]
    /\ UNCHANGED <<conversion_timeout, excel_data, data_table, selection,
                   templates, preview_btn_disabled, file_download_disabled,
                   pdf_preview_area, status, notification, run, returned,
                   lastLoad, conv, tmp_files>>

\* The user changes the checkbox selection of the data table; the watcher
\* registered in get_main calls _update_button_states.
OnSelection(sel) ==
    /\ Idle
    /\ data_table # NoData
    /\ sel # selection
    /\ \A k \in 1..Len(sel) : sel[k] \in 1..NumRows(data_table)
    /\ selection' = sel
    /\ preview_btn_disabled' =
           ButtonsDisabled(excel_data, templates, data_table, sel)
    /\ file_download_disabled' =
           ButtonsDisabled(excel_data, templates, data_table, sel)
    /\ UNCHANGED <<conversion_timeout, excel_data, data_table, templates,
                   template_table, pdf_preview_area, status, notification,
                   run, returned, lastLoad, conv, tmp_files>>

(***************************************************************************)
(* Record normalizer and _get_output_filename                              *)
(***************************************************************************)
\* row.to_dict() then {k: str(v) if pd.notna(v) else '' ...}: the record
\* of dataset row r, as the ordered list of its (key, value) items.
RowData(d, r) ==
    [c \in 1..Len(d.columns) |->
        [key |-> d.columns[c],
         value |-> IF d.rows[r][c] # NaN THEN d.rows[r][c] ELSE <<>>]]

\* for key, value in row_data.items(): filename.replace("{{ " + key + " }}", ...)
RECURSIVE Substitute(_, _, _)
Substitute(filename, row_data, i) ==
    IF i > Len(row_data) THEN filename
    ELSE Substitute(
             Replace(filename,
                     <<"{", "{", " ">> \o row_data[i].key \o <<" ", "}", "}">>,
                     row_data[i].value),
             row_data, i + 1)

SafeChar(c) == IsAlnum(c) \/ c \in {" ", "_", "-", "."}

\* "".join(c for c in filename if c.isalnum() or c in (' ', '_', '-', '.'))
RECURSIVE CleanFilename(_)
CleanFilename(s) ==
    IF s = <<>> THEN <<>>
    ELSE (IF SafeChar(Head(s)) THEN <<Head(s)>> ELSE <<>>)
         \o CleanFilename(Tail(s))

\* The try block of _get_output_filename, for a naming template that is a
\* string.
GetOutputFilename(naming_template, row_data, extension) ==
    LET substituted == Substitute(naming_template, row_data, 1)
        with_ext == IF ~EndsWith(substituted, extension)
                    THEN substituted \o extension ELSE substituted
    IN  CleanFilename(with_ext)

\* A naming template that is not a str (None, NaN, a number): its
\* .replace raises AttributeError in the try block
NotAString == <<"None">>

\* Line 367: f"document_{row_data.get(list(row_data.keys())[0], 'output')}
\* {extension}"; list(...)[0] raises IndexError on an empty record
Fallback(row_data, extension) ==
    IF row_data = <<>>
    THEN [result |-> "raised", filename |-> <<>>]
    ELSE [result |-> "returned",
          filename |-> <<"d", "o", "c", "u", "m", "e", "n", "t", "_">>
                       \o row_data[1].value \o extension]

\* _get_output_filename: the try block, and the except branch when the try
\* block raises
GetOutputFilenameResult(naming_template, row_data, extension) ==
    IF naming_template # NotAString
    THEN [result |-> "returned",
          filename |-> GetOutputFilename(naming_template, row_data,
                                         extension)]
    ELSE Fallback(row_data, extension)

(***************************************************************************)
(* _render_template and _convert_to_pdf                                    *)
(***************************************************************************)
\* The document docxtpl renders from a template blob and a record
Rendered(template_bytes, row_data) ==
    [template |-> template_bytes, data |-> row_data]

\* How a call of _render_template can go: every step returns; the write of
\* the template copy raises (line 269); DocxTemplate or doc.render raises
\* (lines 274-277); doc.save raises (line 280)
RenderOutcomes == {"ok", "write_failed", "render_failed", "save_failed"}

\* _render_template: whether it returns, and the temporary files it leaves
\* on disk. The copy is created with delete=False and written before the
\* try statement is entered; the finally clause removes it.
RenderTemplate(outcome) ==
    LET created == {"tmp_template"}
    IN  IF outcome = "write_failed"
        THEN [ok |-> FALSE, left |-> created]
        ELSE [ok |-> outcome = "ok", left |-> created \ {"tmp_template"}]

\* time.sleep(0.5): the model's clock ticks in half seconds
TicksPerSecond == 2

Never == 0 - 1

\* The file the external process writes: the source name with its last
\* extension replaced
ActualPdf(docx_path) == Stem(docx_path) \o Ext_pdf

\* docx_path.replace('.docx', '.pdf')
ExpectedPdf(docx_path) == Replace(docx_path, Ext_docx, Ext_pdf)

\* os.path.exists(pdf_path) at tick now after the start of the process;
\* inp.appear is the tick at which the process's output file appears.
PdfExists(docx_path, inp, now) ==
    /\ ExpectedPdf(docx_path) = ActualPdf(docx_path)
    /\ inp.appear # Never
    /\ inp.appear <= now

\* while not os.path.exists(pdf_path) and wait_time < timeout: sleep; the
\* value of wait_time (in ticks) when the loop ends
RECURSIVE PollLoop(_, _, _, _)
PollLoop(docx_path, inp, limit, wait_time) ==
    IF ~PdfExists(docx_path, inp, inp.p + wait_time) /\ wait_time < limit
    THEN PollLoop(docx_path, inp, limit, wait_time + 1)
    ELSE wait_time

\* _convert_to_pdf without the test of result.returncode
ConvertToPdf_NoExitCheck(docx_path, inp, timeout) ==
    LET limit == timeout * TicksPerSecond
        wait_time == PollLoop(docx_path, inp, limit, 0)
        base == [timeout |-> timeout, docx |-> docx_path, p |-> inp.p,
                 rc |-> inp.rc, appear |-> inp.appear, stderr |-> inp.stderr]
    IN  IF inp.p > limit
        THEN base @@ [result |-> "raised", exc |-> "TimeoutExpired",
                      msg |-> "", path |-> <<>>, polls |-> 0,
                      elapsed |-> limit, exists |-> FALSE]
        ELSE IF ~PdfExists(docx_path, inp, inp.p + wait_time)
        THEN base @@ [result |-> "raised", exc |-> "NotCreated",
                      msg |-> "", path |-> <<>>, polls |-> wait_time,
                      elapsed |-> inp.p + wait_time, exists |-> FALSE]
        ELSE base @@ [result |-> "returned", exc |-> "", msg |-> "",
                      path |-> ExpectedPdf(docx_path), polls |-> wait_time,
                      elapsed |-> inp.p + wait_time, exists |-> TRUE]

\* _convert_to_pdf without the test of os.path.exists after the poll loop
ConvertToPdf_NoFinalCheck(docx_path, inp, timeout) ==
    LET limit == timeout * TicksPerSecond
        wait_time == PollLoop(docx_path, inp, limit, 0)
        base == [timeout |-> timeout, docx |-> docx_path, p |-> inp.p,
                 rc |-> inp.rc, appear |-> inp.appear, stderr |-> inp.stderr]
    IN  IF inp.p > limit
        THEN base @@ [result |-> "raised", exc |-> "TimeoutExpired",
                      msg |-> "", path |-> <<>>, polls |-> 0,
                      elapsed |-> limit, exists |-> FALSE]
        ELSE IF inp.rc # 0
        THEN base @@ [result |-> "raised", exc |-> "ConversionFailed",
                      msg |-> inp.stderr, path |-> <<>>, polls |-> 0,
                      elapsed |-> inp.p,
                      exists |-> PdfExists(docx_path, inp, inp.p)]
        ELSE base @@ [result |-> "returned", exc |-> "", msg |-> "",
                      path |-> ExpectedPdf(docx_path), polls |-> wait_time,
                      elapsed |-> inp.p + wait_time,
                      exists |-> PdfExists(docx_path, inp, inp.p + wait_time)]

\* _convert_to_pdf(docx_path) with conversion_timeout = timeout seconds.
\* inp: what the external process does: p, the ticks it runs; rc, its exit
\* code; stderr, its captured error text; appear, when its file appears.
ConvertToPdf(docx_path, inp, timeout) ==
    LET limit == timeout * TicksPerSecond
        wait_time == PollLoop(docx_path, inp, limit, 0)
        base == [timeout |-> timeout, docx |-> docx_path, p |-> inp.p,
                 rc |-> inp.rc, appear |-> inp.appear, stderr |-> inp.stderr]
    IN  IF inp.p > limit
        THEN base @@ [result |-> "raised", exc |-> "TimeoutExpired",
                      msg |-> "", path |-> <<>>, polls |-> 0,
                      elapsed |-> limit, exists |-> FALSE]
        ELSE IF inp.rc # 0
        THEN base @@ [result |-> "raised", exc |-> "ConversionFailed",
                      msg |-> inp.stderr, path |-> <<>>, polls |-> 0,
                      elapsed |-> inp.p,
                      exists |-> PdfExists(docx_path, inp, inp.p)]
        ELSE IF ~PdfExists(docx_path, inp, inp.p + wait_time)
        THEN base @@ [result |-> "raised", exc |-> "NotCreated",
                      msg |-> "", path |-> <<>>, polls |-> wait_time,
                      elapsed |-> inp.p + wait_time, exists |-> FALSE]
        ELSE base @@ [result |-> "returned", exc |-> "", msg |-> "",
                      path |-> ExpectedPdf(docx_path), polls |-> wait_time,
                      elapsed |-> inp.p + wait_time,
                      exists |-> PdfExists(docx_path, inp, inp.p + wait_time)]

(***************************************************************************)
(* _preview_documents                                                      *)
(***************************************************************************)
\* self.excel_data.iloc[selected_indices] raises: no dataset, or a selected
\* position outside the dataset
IlocRaises(sel) ==
    \/ excel_data = NoData
    \/ \E k \in 1..Len(sel) : sel[k] > NumRows(excel_data)

\* The except branch of a run handler; pair_failed: the exception came from
\* rendering, converting or archiving the current pair.
RunError(msg, pair_failed) ==
    /\ status' = Status("Error", 0, <<>>, msg)
    /\ notification' = "error"
    /\ run' = [run EXCEPT !.pc = "done", !.ended = "error",
                          !.failed = IF pair_failed THEN 1 ELSE 0]

\* The loops with the inner loop left after its first record
NextPair_FirstRecordOnly(rn) == [rn EXCEPT !.t = rn.t + 1, !.r = 1]

\* The loop counters after one more pair
NextPair(rn) ==
    IF rn.r < Len(rn.rows) THEN [rn EXCEPT !.r = rn.r + 1]
    ELSE [rn EXCEPT !.t = rn.t + 1, !.r = 1]

\* Lines 371-386: up to the first iteration of the loops
PreviewStart ==
    /\ Idle
    /\ ~preview_btn_disabled
    /\ pdf_preview_area' = <<>>
    /\ IF selection = <<>>
       THEN /\ status' = Status("GeneratingPreviews", 0, <<>>, "")
            /\ notification' = "warning"
            /\ run' = [NoRun EXCEPT !.pc = "done", !.kind = "preview",
                                    !.ended = "no_selection",
                                    !.T = Len(templates)]
       ELSE IF IlocRaises(selection)
       THEN /\ status' = Status("Error", 0, <<>>, "iloc")
            /\ notification' = "error"
            /\ run' = [NoRun EXCEPT !.pc = "done", !.kind = "preview",
                                    !.ended = "error",
                                    !.T = Len(templates),
                                    !.R = Len(selection)]
       ELSE /\ status' = Status("GeneratingPreviews", 0, <<>>, "")
            /\ run' = [NoRun EXCEPT !.pc = "running", !.kind = "preview",
                                    !.rows = selection,
                                    !.configs = template_table,
                                    !.T = Len(templates),
                                    !.R = Len(selection)]
            /\ UNCHANGED notification
    /\ UNCHANGED <<conversion_timeout, excel_data, data_table, selection,
                   templates, template_table, preview_btn_disabled,
                   file_download_disabled, returned, lastLoad, conv,
                   tmp_files>>

\* The card appended for one pair
PreviewCard(naming_template, template_bytes, row_data) ==
    [title |-> GetOutputFilename(naming_template, row_data, Ext_pdf),
     pdf |-> [pdf_of |-> Rendered(template_bytes, row_data)]]

\* with tempfile.TemporaryDirectory() as tmpdir: the files on disk after the
\* block, whose body left body_left outside the directory
AfterTemporaryDirectory(files, body_left) ==
    ((files \cup {"tmpdir"}) \cup body_left) \ {"tmpdir"}

\* Lines 389-437: one iteration of the inner loop. render: how
\* _render_template goes; inp: what the conversion process does.
PreviewPair(render, inp) ==
    /\ run.pc = "running"
    /\ run.kind = "preview"
    /\ run.t <= Len(templates)
    /\ IF run.t > Len(run.configs)
       THEN RunError("IndexError", FALSE)
            /\ UNCHANGED <<pdf_preview_area, tmp_files>>
       ELSE LET template_bytes == templates[run.t].bytes
                naming_template == run.configs[run.t].Naming_Template
                row_data == RowData(excel_data, run.rows[run.r])
                docx_filename ==
                    GetOutputFilename(naming_template, row_data, Ext_docx)
                rt == RenderTemplate(render)
                c == ConvertToPdf(docx_filename, inp, conversion_timeout)
            IN  /\ tmp_files' = AfterTemporaryDirectory(tmp_files, rt.left)
                /\ IF ~rt.ok
                   THEN RunError("render", TRUE)
                        /\ UNCHANGED pdf_preview_area
                   ELSE IF c.result = "raised"
                   THEN RunError(c.exc, TRUE) /\ UNCHANGED pdf_preview_area
                   ELSE /\ pdf_preview_area' =
                               Append(pdf_preview_area,
                                      PreviewCard(naming_template,
                                                  template_bytes, row_data))
                        /\ run' = [NextPair(run) EXCEPT
                                      !.count = run.count + 1,
                                      !.ok = run.ok + 1]
                        /\ UNCHANGED <<status, notification>>
    /\ UNCHANGED <<conversion_timeout, excel_data, data_table, selection,
                   templates, template_table, preview_btn_disabled,
                   file_download_disabled, returned, lastLoad, conv>>

\* Lines 439-440
PreviewFinish ==
    /\ run.pc = "running"
    /\ run.kind = "preview"
    /\ run.t > Len(templates)
    /\ status' = Status("GeneratedPreviews", run.count, <<>>, "")
    /\ notification' = "success"
    /\ run' = [run EXCEPT !.pc = "done", !.ended = "ok"]
    /\ UNCHANGED <<conversion_timeout, excel_data, data_table, selection,
                   templates, template_table, preview_btn_disabled,
                   file_download_disabled, pdf_preview_area, returned,
                   lastLoad, conv, tmp_files>>

(***************************************************************************)
(* _download_documents                                                     *)
(***************************************************************************)
\* io.BytesIO(): no archive at all
EmptyBuffer == [zip |-> FALSE, entries |-> <<>>]

\* Lines 463-478
DownloadStart ==
    /\ Idle
    /\ ~file_download_disabled
    /\ IF selection = <<>>
       THEN /\ notification' = "warning"
            /\ returned' = EmptyBuffer
            /\ run' = [NoRun EXCEPT !.pc = "done", !.kind = "download",
                                    !.ended = "no_selection",
                                    !.T = Len(templates)]
            /\ UNCHANGED status
       ELSE IF IlocRaises(selection)
       THEN /\ status' = Status("Error", 0, <<>>, "iloc")
            /\ notification' = "error"
            /\ returned' = EmptyBuffer
            /\ run' = [NoRun EXCEPT !.pc = "done", !.kind = "download",
                                    !.ended = "error",
                                    !.T = Len(templates),
                                    !.R = Len(selection)]
       ELSE /\ run' = [NoRun EXCEPT !.pc = "running", !.kind = "download",
                                    !.rows = selection,
                                    !.configs = template_table,
                                    !.T = Len(templates),
                                    !.R = Len(selection)]
            /\ returned' = NoReturn
            /\ UNCHANGED <<status, notification>>
    /\ UNCHANGED <<conversion_timeout, excel_data, data_table, selection,
                   templates, template_table, preview_btn_disabled,
                   file_download_disabled, pdf_preview_area, lastLoad, conv,
                   tmp_files>>

\* zipf.write(tmp_path, output_filename): the entry added to the archive
ZipEntry(naming_template, template_bytes, row_data) ==
    [name |-> GetOutputFilename(naming_template, row_data, Ext_docx),
     doc |-> Rendered(template_bytes, row_data)]

\* Lines 491-510: the pair's output file, created with delete=False, and
\* the finally clause that removes it: the files on disk afterwards
AfterPairFile(files, body_left) ==
    ((files \cup {"tmp_file"}) \cup body_left) \ {"tmp_file"}

\* Lines 480-510: one iteration of the inner loop. render: how
\* _render_template goes; write_ok: whether zipf.write returns.
DownloadPair(render, write_ok) ==
    /\ run.pc = "running"
    /\ run.kind = "download"
    /\ run.t <= Len(templates)
    /\ IF run.t > Len(run.configs)
       THEN RunError("IndexError", FALSE)
            /\ returned' = EmptyBuffer
            /\ UNCHANGED tmp_files
       ELSE LET template_bytes == templates[run.t].bytes
                naming_template == run.configs[run.t].Naming_Template
                row_data == RowData(excel_data, run.rows[run.r])
                rt == RenderTemplate(render)
            IN  /\ tmp_files' = AfterPairFile(tmp_files, rt.left)
                /\ IF ~rt.ok
                   THEN RunError("render", TRUE) /\ returned' = EmptyBuffer
                   ELSE IF ~write_ok
                   THEN RunError("zip", TRUE) /\ returned' = EmptyBuffer
                   ELSE /\ run' = [NextPair(run) EXCEPT
                                      !.zip = Append(run.zip,
                                                  ZipEntry(naming_template,
                                                           template_bytes,
                                                           row_data)),
                                      !.ok = run.ok + 1]
                        /\ UNCHANGED <<status, notification, returned>>
    /\ UNCHANGED <<conversion_timeout, excel_data, data_table, selection,
                   templates, template_table, preview_btn_disabled,
                   file_download_disabled, pdf_preview_area, lastLoad, conv>>

\* Lines 512-518
DownloadFinish ==
    /\ run.pc = "running"
    /\ run.kind = "download"
    /\ run.t > Len(templates)
    /\ status' = Status("GeneratedDocuments",
                        Len(run.rows) * Len(templates), <<>>, "")
    /\ notification' = "success"
    /\ returned' = [zip |-> TRUE, entries |-> run.zip]
    /\ run' = [run EXCEPT !.pc = "done", !.ended = "ok"]
    /\ UNCHANGED <<conversion_timeout, excel_data, data_table, selection,
                   templates, template_table, preview_btn_disabled,
                   file_download_disabled, pdf_preview_area, lastLoad, conv,
                   tmp_files>>

\* The run handler returns to the server loop: its locals are gone and the
\* value it returned has been handed to the download widget.
RunReturn ==
    /\ run.pc = "done"
    /\ run' = NoRun
    /\ returned' = NoReturn
    /\ UNCHANGED <<conversion_timeout, excel_data, data_table, selection,
                   templates, template_table, preview_btn_disabled,
                   file_download_disabled, pdf_preview_area, status,
                   notification, lastLoad, conv, tmp_files>>

(***************************************************************************)
(* Inputs of the handlers                                                  *)
(***************************************************************************)
\* What pd.read_excel returns for a sheet with the given header row and n
\* data rows; every cell of data row r holds the number r.
Sheet(labels, n) ==
    [labels |-> labels,
     rows |-> [r \in 1..n |-> [c \in 1..Len(labels) |-> IntToStr(r)]]]

\* Sequences without repetition of at most n elements of S
RECURSIVE DistinctSeqs(_, _)
DistinctSeqs(S, n) ==
    IF n = 0 THEN {<<>>}
    ELSE LET shorter == DistinctSeqs(S, n - 1)
             longer == {Append(q, x) : q \in shorter, x \in S}
         IN  shorter \cup
             {q \in longer : \A i, j \in 1..Len(q) : q[i] = q[j] => i = j}

\* Header rows of the session runs: no column, a clean label, a label of
\* white space only
RunHeaders == {<<>>, <<(<<"A">>)>>, <<(<<" ">>)>>}

RunSheets ==
    {Sheet(h, n) : h \in RunHeaders \ {<<>>}, n \in 0..MaxRows}
    \cup {Sheet(<<>>, 0)}

TemplateFiles ==
    {<<"a", ".", "d", "o", "c", "x">>, <<"b", ".", "d", "o", "c", "x">>}

\* Naming patterns the user types into the template table
EditPatterns == {<<"x">>}

RunConvInputs ==
    {[p |-> 1, rc |-> 0, stderr |-> "", appear |-> 1],
     [p |-> 1, rc |-> 1, stderr |-> "e1", appear |-> Never],
     [p |-> 1, rc |-> 0, stderr |-> "", appear |-> Never]}

(***************************************************************************)
(* The session: every handler of the application                           *)
(***************************************************************************)
\* int(os.getenv('CONVERSION_TIMEOUT', '60'))
DefaultTimeout == 60

Init ==
    /\ conversion_timeout = DefaultTimeout
    /\ excel_data = NoData
    /\ data_table = NoData
    /\ selection = <<>>
    /\ templates = <<>>
    /\ template_table = <<>>
    /\ preview_btn_disabled = TRUE
    /\ file_download_disabled = TRUE
    /\ pdf_preview_area = <<>>
    /\ status = Status("Ready", 0, <<>>, "")
    /\ notification = "none"
    /\ run = NoRun
    /\ returned = NoReturn
    /\ lastLoad = NoLoad
    /\ conv = NoConv
    /\ events = 0
    /\ naming = NoNaming
    /\ tmp_files = {}

\* A user event (an upload, a click, an edit) starts a handler; the session
\* takes at most MaxEvents of them.
Event(Handler) ==
    /\ events < MaxEvents
    /\ events' = events + 1
    /\ Handler
    /\ UNCHANGED naming

\* A further step of the handler that is running
Step(Handler) == Handler /\ UNCHANGED <<events, naming>>

Next ==
    \/ \E sh \in RunSheets : Event(OnExcelUpload(sh.labels, sh.rows, TRUE))
    \/ Event(OnExcelUpload(<<>>, <<>>, FALSE))
    \/ \E files \in DistinctSeqs(TemplateFiles, MaxTemplates) \ {<<>>} :
           Event(OnTemplateUpload(files))
    \/ Event(ClearTemplates)
    \/ \E i \in 1..MaxTemplates, pattern \in EditPatterns :
           Event(EditNamingTemplate(i, pattern))
    \/ \E sel \in DistinctSeqs(1..MaxRows, MaxRows) : Event(OnSelection(sel))
    \/ Event(PreviewStart)
    \/ \E render \in RenderOutcomes, inp \in RunConvInputs :
           Step(PreviewPair(render, inp))
    \/ Step(PreviewFinish)
    \/ Event(DownloadStart)
    \/ \E render \in RenderOutcomes, write_ok \in BOOLEAN :
           Step(DownloadPair(render, write_ok))
    \/ Step(DownloadFinish)
    \/ Step(RunReturn)

Spec == Init /\ [][Next]_vars

(***************************************************************************)
(* Data loads alone: _on_excel_upload over a wider set of header rows      *)
(***************************************************************************)
\* Column labels as pd.read_excel hands them over: not empty and distinct
\* within one header row
LoadLabels ==
    {<<"A">>, <<"A", " ">>, <<"A", "_", "1">>, <<"A", " ", "1">>,
     <<"1", "-">>, <<" ">>}

LoadHeaders == DistinctSeqs(LoadLabels, MaxCols)

\* An upload event of a session of at most MaxLoads uploads
LoadEvent(Handler) ==
    /\ events < MaxLoads
    /\ events' = events + 1
    /\ Handler
    /\ UNCHANGED naming

LoadNext ==
    \/ \E h \in LoadHeaders :
           LoadEvent(OnExcelUpload(Sheet(h, 1).labels, Sheet(h, 1).rows, TRUE))
    \/ LoadEvent(OnExcelUpload(<<>>, <<>>, FALSE))

SpecLoad == Init /\ [][LoadNext]_vars

(***************************************************************************)
(* The sanitizer loop alone, over label lists with repeated labels         *)
(***************************************************************************)
Customer_Name_Label ==
    <<"C", "u", "s", "t", "o", "m", "e", "r", " ", "N", "a", "m", "e">>

Revenue_2023_Label ==
    <<"2", "0", "2", "3", " ", "R", "e", "v", "e", "n", "u", "e">>

SanLabels ==
    {<<"A">>, <<"A", " ", "1">>, <<"A", "_", "1">>, <<" ">>,
     Customer_Name_Label, Revenue_2023_Label}

\* Every list of at most n labels of S
RECURSIVE AllSeqs(_, _)
AllSeqs(S, n) ==
    IF n = 0 THEN {<<>>}
    ELSE LET shorter == AllSeqs(S, n - 1)
         IN  shorter \cup {Append(q, x) : q \in shorter, x \in S}

\* The label list handed to the loop, before the call
SanInit ==
    /\ conversion_timeout = DefaultTimeout
    /\ excel_data = NoData
    /\ data_table = NoData
    /\ selection = <<>>
    /\ templates = <<>>
    /\ template_table = <<>>
    /\ preview_btn_disabled = TRUE
    /\ file_download_disabled = TRUE
    /\ pdf_preview_area = <<>>
    /\ status = Status("Ready", 0, <<>>, "")
    /\ notification = "none"
    /\ run = NoRun
    /\ returned = NoReturn
    /\ lastLoad \in {[NoLoad EXCEPT !.original = cols] :
                        cols \in AllSeqs(SanLabels, MaxCols)}
    /\ conv = NoConv
    /\ events = 0
    /\ naming = NoNaming
    /\ tmp_files = {}

\* Lines 146-161 applied to the list original_columns
SanitizeCall ==
    /\ lastLoad.ended = "none"
    /\ LET san == SanitizeColumns(lastLoad.original)
       IN  lastLoad' = [lastLoad EXCEPT
                           !.valid = san.cols,
                           !.ended = IF san.ok THEN "sanitized"
                                     ELSE "raised"]
    /\ UNCHANGED <<conversion_timeout, excel_data, data_table, selection,
                   templates, template_table, preview_btn_disabled,
                   file_download_disabled, pdf_preview_area, status,
                   notification, run, returned, conv, events, naming,
                   tmp_files>>

SanNext == SanitizeCall

SpecSan == SanInit /\ [][SanNext]_vars

(***************************************************************************)
(* _get_output_filename alone, over naming patterns and records            *)
(***************************************************************************)
Open == <<"{", "{">>
Close == <<"}", "}">>
Sp == <<" ">>
Key_k == <<"k">>
Key_j == <<"j">>
Key_Customer_Name ==
    <<"C", "u", "s", "t", "o", "m", "e", "r", "_", "N", "a", "m", "e">>

\* "{{" + n spaces + key + n spaces + "}}"
RECURSIVE Spaces(_)
Spaces(n) == IF n = 0 THEN <<>> ELSE Sp \o Spaces(n - 1)

Placeholder(key, n) == Open \o Spaces(n) \o key \o Spaces(n) \o Close

NamingPatterns ==
    {<<"x">>,
     <<>>,
     NotAString,
     Placeholder(Key_k, 0),
     Placeholder(Key_k, 1),
     Placeholder(Key_k, 2),
     <<"a", "#">> \o Placeholder(Key_k, 1),
     Placeholder(Key_k, 1) \o <<"_">> \o Placeholder(Key_j, 1),
     Placeholder(Key_k, 1) \o Ext_docx,
     <<"i", "n", "v", "o", "i", "c", "e", "_">>
         \o Placeholder(Key_Customer_Name, 1)}

Records ==
    {<<>>,
     <<[key |-> Key_k, value |-> <<"v">>]>>,
     <<[key |-> Key_k, value |-> <<>>]>>,
     <<[key |-> Key_k, value |-> <<"a", "/", "b">>]>>,
     <<[key |-> Key_k, value |-> <<"v">>], [key |-> Key_j, value |-> <<"w">>]>>,
     <<[key |-> Key_k, value |-> Placeholder(Key_j, 1)],
       [key |-> Key_j, value |-> <<"w">>]>>,
     <<[key |-> Key_Customer_Name,
        value |-> <<"A", "c", "m", "e", " ", "C", "o">>]>>}

Extensions == {Ext_docx, Ext_pdf}

\* The arguments of a call, before the call
NamingInit ==
    /\ conversion_timeout = DefaultTimeout
    /\ excel_data = NoData
    /\ data_table = NoData
    /\ selection = <<>>
    /\ templates = <<>>
    /\ template_table = <<>>
    /\ preview_btn_disabled = TRUE
    /\ file_download_disabled = TRUE
    /\ pdf_preview_area = <<>>
    /\ status = Status("Ready", 0, <<>>, "")
    /\ notification = "none"
    /\ run = NoRun
    /\ returned = NoReturn
    /\ lastLoad = NoLoad
    /\ conv = NoConv
    /\ events = 0
    /\ naming \in {[NoNaming EXCEPT !.naming_template = np,
                                     !.row_data = rd,
                                     !.extension = ext] :
                      np \in NamingPatterns, rd \in Records,
                      ext \in Extensions}
    /\ tmp_files = {}

\* One call of _get_output_filename
GetOutputFilenameCall ==
    /\ naming.result = "none"
    /\ LET res == GetOutputFilenameResult(naming.naming_template,
                                          naming.row_data, naming.extension)
       IN  naming' = [naming EXCEPT !.result = res.result,
                                    !.filename = res.filename]
    /\ UNCHANGED <<conversion_timeout, excel_data, data_table, selection,
                   templates, template_table, preview_btn_disabled,
                   file_download_disabled, pdf_preview_area, status,
                   notification, run, returned, lastLoad, conv, events,
                   tmp_files>>

NamingNext == GetOutputFilenameCall

SpecNaming == NamingInit /\ [][NamingNext]_vars

(***************************************************************************)
(* Conversions alone: _convert_to_pdf over what the process can do         *)
(***************************************************************************)
StderrTexts == {"e1", "e2"}

DocxPaths ==
    {<<"a">> \o Ext_docx, <<"a">> \o Ext_docx \o <<"_">> \o Ext_docx}

\* What the external process does within the horizon of a call with the
\* given timeout: it runs p ticks (more than the limit: it is killed), exits
\* with rc, and its file appears at tick appear or never.
ConvInputs(timeout) ==
    LET limit == timeout * TicksPerSecond
    IN  {[p |-> p, rc |-> 0, stderr |-> "", appear |-> a] :
            p \in 0..(limit + 1), a \in {Never} \cup 0..(2 * limit + 1)}
        \cup
        {[p |-> p, rc |-> 1, stderr |-> e, appear |-> a] :
            p \in 0..(limit + 1), e \in StderrTexts,
            a \in {Never} \cup 0..(2 * limit + 1)}

ConvInit ==
    /\ conversion_timeout \in 1..MaxTimeout
    /\ excel_data = NoData
    /\ data_table = NoData
    /\ selection = <<>>
    /\ templates = <<>>
    /\ template_table = <<>>
    /\ preview_btn_disabled = TRUE
    /\ file_download_disabled = TRUE
    /\ pdf_preview_area = <<>>
    /\ status = Status("Ready", 0, <<>>, "")
    /\ notification = "none"
    /\ run = NoRun
    /\ returned = NoReturn
    /\ lastLoad = NoLoad
    /\ conv = NoConv
    /\ events = 0
    /\ naming = NoNaming
    /\ tmp_files = {}

\* One call of _convert_to_pdf
ConvertCall(docx_path, inp) ==
    /\ conv' = ConvertToPdf(docx_path, inp, conversion_timeout)
    /\ UNCHANGED <<conversion_timeout, excel_data, data_table, selection,
                   templates, template_table, preview_btn_disabled,
                   file_download_disabled, pdf_preview_area, status,
                   notification, run, returned, lastLoad, events, naming,
                   tmp_files>>

ConvNext ==
    \E docx_path \in DocxPaths, inp \in ConvInputs(conversion_timeout) :
        ConvertCall(docx_path, inp)

SpecConv == ConvInit /\ [][ConvNext]_vars

(***************************************************************************)
(* Properties of the data load                                             *)
(***************************************************************************)
PairwiseDistinct(q) == \A i, j \in 1..Len(q) : q[i] = q[j] => i = j

\* Non-empty, a letter or underscore first, then letters, digits, underscores
IsIdentifier(name) ==
    /\ name # <<>>
    /\ IsAlpha(name[1]) \/ name[1] = "_"
    /\ \A i \in 1..Len(name) : IsAlnum(name[i]) \/ name[i] = "_"

\* C8: after a successful load the sanitized names are pairwise distinct,
\* there is one for each raw label, and the stored dataset has as many
\* columns as the sheet had labels (no column dropped or merged).
C8_SanitizedNamesDistinct ==
    lastLoad.ended = "ok" =>
        /\ Len(lastLoad.valid) = Len(lastLoad.raw)
        /\ PairwiseDistinct(lastLoad.valid)
        /\ excel_data.columns = lastLoad.valid
        /\ Len(excel_data.columns) = Len(lastLoad.raw)

\* C9: whenever a dataset is stored, each of its column names is an
\* identifier: non-empty, starting with a letter or underscore, made of
\* letters, digits and underscores.
C9_StoredColumnsAreIdentifiers ==
    excel_data # NoData =>
        \A c \in 1..Len(excel_data.columns) :
            IsIdentifier(excel_data.columns[c])

\* C10: sanitizing the sanitized names of a successful load again (strip,
\* then the loop) yields the same names in the same order.
C10_SanitizeIdempotent ==
    lastLoad.ended = "ok" =>
        LET again == SanitizeColumns(StripColumns(lastLoad.valid))
        IN  again.ok /\ again.cols = lastLoad.valid

\* C12: an upload that ends in the error branch of _on_excel_upload, at
\* whatever step it failed, leaves the stored dataset as it was before.
C12_FailedLoadKeepsDataset ==
    [][(events' # events /\ lastLoad'.ended \in {"parse_error", "error"})
          => excel_data' = excel_data]_vars

\* C20: after a successful load the status lists a rename warning for
\* exactly the labels whose sanitized name differs from the raw label of the
\* spreadsheet (trimmed, altered or given a suffix), and none for a label
\* that kept its name.
C20_WarningForEveryAlteredLabel ==
    lastLoad.ended = "ok" =>
        \A i \in 1..Len(lastLoad.raw) :
            (lastLoad.raw[i] # lastLoad.valid[i])
            <=> (\E w \in 1..Len(status.warnings) :
                    status.warnings[w][2] = lastLoad.valid[i])

\* How many labels before position i sanitize to the same name as label i
EarlierSame(cols, i) ==
    Cardinality({j \in 1..(i - 1) :
                    SanitizeLabel(cols[j]) = SanitizeLabel(cols[i])})

\* C11: among the labels that sanitize to the same name N, the first keeps
\* the bare name N and the k-th later one becomes N_k; and the labels
\* ['Customer Name', '2023 Revenue', 'Customer Name'] sanitize to
\* ['Customer_Name', '_2023_Revenue', 'Customer_Name_1'].
C11_CollisionSuffix ==
    lastLoad.ended = "sanitized" =>
        /\ Len(lastLoad.valid) = Len(lastLoad.original)
        /\ \A i \in 1..Len(lastLoad.original) :
               LET N == SanitizeLabel(lastLoad.original[i])
                   k == EarlierSame(lastLoad.original, i)
               IN  lastLoad.valid[i] =
                       IF k = 0 THEN N ELSE N \o <<"_">> \o IntToStr(k)
        /\ lastLoad.original =
               <<Customer_Name_Label, Revenue_2023_Label, Customer_Name_Label>>
           => lastLoad.valid =
               <<(<<"C", "u", "s", "t", "o", "m", "e", "r", "_",
                    "N", "a", "m", "e">>),
                 (<<"_", "2", "0", "2", "3", "_",
                    "R", "e", "v", "e", "n", "u", "e">>),
                 (<<"C", "u", "s", "t", "o", "m", "e", "r", "_",
                    "N", "a", "m", "e", "_", "1">>)>>

\* Three labels that sanitize to one name: the third carries the suffix _2
C11_Witness ==
    /\ lastLoad.ended = "sanitized"
    /\ Len(lastLoad.original) = 3
    /\ EarlierSame(lastLoad.original, 3) = 2
    /\ lastLoad.valid[3] = lastLoad.valid[1] \o <<"_", "2">>

(***************************************************************************)
(* Properties of the filename templater                                    *)
(***************************************************************************)
\* C13: a call of _get_output_filename never raises; it returns a non-empty
\* string that ends with the requested extension, whatever the naming
\* pattern and the record (the empty record included).
C13_NamingNeverRaises ==
    naming.result # "none" =>
        /\ naming.result = "returned"
        /\ naming.filename # <<>>
        /\ EndsWith(naming.filename, naming.extension)

\* s contains sub as a substring
Contains(s, sub) ==
    \E i \in 1..(Len(s) - Len(sub) + 1) :
        SubSeq(s, i, i + Len(sub) - 1) = sub

\* The placeholders for record entry e that s can start with: the name
\* between double braces, with any amount of white space around it
TokensAtHead(s, e) ==
    {tok \in {Open \o Spaces(n) \o e.key \o Spaces(m) \o Close :
                 n \in 0..Len(s), m \in 0..Len(s)} : StartsWith(s, tok)}

\* One pass over the pattern from left to right: each placeholder that
\* names a key of the record becomes what Value gives for its entry, every
\* other character is copied.
RECURSIVE PurePass(_, _, _)
PurePass(s, row_data, keep_values) ==
    IF s = <<>> THEN <<>>
    ELSE IF \E i \in 1..Len(row_data) : TokensAtHead(s, row_data[i]) # {}
    THEN LET i == CHOOSE i \in 1..Len(row_data) :
                      TokensAtHead(s, row_data[i]) # {}
             tok == CHOOSE tok \in TokensAtHead(s, row_data[i]) : TRUE
         IN  (IF keep_values THEN row_data[i].value ELSE <<>>)
             \o PurePass(SubSeq(s, Len(tok) + 1, Len(s)), row_data,
                         keep_values)
    ELSE <<Head(s)>> \o PurePass(Tail(s), row_data, keep_values)

\* Every placeholder of the pattern names a key of the record: outside
\* them no double brace is left
PlaceholdersAllNamed(pattern, row_data) ==
    /\ pattern # NotAString
    /\ ~Contains(PurePass(pattern, row_data, FALSE), Open)
    /\ ~Contains(PurePass(pattern, row_data, FALSE), Close)

\* s, followed by the extension if it does not end with it
WithExtension(s, extension) ==
    IF EndsWith(s, extension) THEN s ELSE s \o extension

\* C14: for a naming pattern whose placeholders all name keys of the
\* record the call is a pure substitution: the output contains no double
\* brace, each placeholder is replaced by the record's value for its key,
\* and every other character of the pattern is kept as it is, followed by
\* the extension if not already there.
C14_PureSubstitution ==
    (/\ naming.result # "none"
     /\ PlaceholdersAllNamed(naming.naming_template, naming.row_data))
    => /\ naming.result = "returned"
       /\ ~Contains(naming.filename, Open)
       /\ ~Contains(naming.filename, Close)
       /\ naming.filename =
              WithExtension(PurePass(naming.naming_template,
                                     naming.row_data, TRUE),
                            naming.extension)

\* The amounts of white space of the claim: none, one space, several
Spacings == 0..2

\* C15: a naming pattern that is the placeholder of a key of the record
\* yields the same filename whatever the white space between the braces
\* and the name: '{{k}}' and '{{  k  }}' yield what '{{ k }}' yields.
C15_WhitespaceTolerant ==
    naming.result # "none" =>
        \A i \in 1..Len(naming.row_data), n \in Spacings :
            naming.naming_template = Placeholder(naming.row_data[i].key, n)
            => /\ naming.result = "returned"
               /\ naming.filename =
                      GetOutputFilename(
                          Placeholder(naming.row_data[i].key, 1),
                          naming.row_data, naming.extension)

(***************************************************************************)
(* Properties of the format converter                                      *)
(***************************************************************************)
\* The deadline of the last call, in ticks
ConvLimit == conv.timeout * TicksPerSecond

\* C5: a call of _convert_to_pdf returns or raises at most the configured
\* timeout after the process was started: process and poll share one
\* deadline.
C5_SingleDeadline ==
    conv.result # "none" => conv.elapsed <= ConvLimit

\* C6: when the process exits with a non-zero code the call raises the
\* conversion error carrying the captured stderr, without any poll and
\* without a path, also when the file exists at the expected path.
C6_NonZeroExitRaises ==
    (conv.result # "none" /\ conv.rc # 0 /\ conv.p <= ConvLimit) =>
        /\ conv.result = "raised"
        /\ conv.exc = "ConversionFailed"
        /\ conv.msg = conv.stderr
        /\ conv.polls = 0
        /\ conv.elapsed = conv.p
        /\ conv.path = <<>>

C6_Witness ==
    /\ conv.result = "raised"
    /\ conv.rc # 0
    /\ conv.p <= ConvLimit
    /\ conv.msg = "e2"
    /\ conv.exists

\* C7: the poll loop ends after at most timeout / 0.5 polls; when the
\* process exits 0 and the file is not at the expected path by the end of
\* the poll budget, the call raises the 'not created' error after exactly
\* that many polls; and a path is returned only if the file exists at that
\* path when the call returns.
C7_PollEndsAndPathExists ==
    conv.result # "none" =>
        /\ conv.polls <= ConvLimit
        /\ (/\ conv.rc = 0
            /\ conv.p <= ConvLimit
            /\ ~PdfExists(conv.docx, conv, conv.p + ConvLimit))
           => (/\ conv.result = "raised"
               /\ conv.exc = "NotCreated"
               /\ conv.polls = ConvLimit)
        /\ conv.result = "returned"
           => (/\ conv.path = ActualPdf(conv.docx)
               /\ conv.appear # Never
               /\ conv.appear <= conv.elapsed)

C7_Witness ==
    /\ conv.rc = 0
    /\ conv.p <= ConvLimit
    /\ conv.appear = Never
    /\ conv.exc = "NotCreated"
    /\ conv.polls = ConvLimit
    /\ ConvLimit > 0

(***************************************************************************)
(* Properties of the runs                                                  *)
(***************************************************************************)
RunDone == run.pc = "done"

\* The pair processed i-th by a run over run.R records per template
PairTemplate(i) == ((i - 1) \div run.R) + 1
PairRecord(i) == ((i - 1) % run.R) + 1

\* What pair i yields when it succeeds
ExpectedCard(i) ==
    PreviewCard(run.configs[PairTemplate(i)].Naming_Template,
                templates[PairTemplate(i)].bytes,
                RowData(excel_data, run.rows[PairRecord(i)]))

ExpectedEntry(i) ==
    ZipEntry(run.configs[PairTemplate(i)].Naming_Template,
             templates[PairTemplate(i)].bytes,
             RowData(excel_data, run.rows[PairRecord(i)]))

\* The position of the pair at which the run stopped
FailedPair == (run.t - 1) * run.R + run.r

\* The number of entries of the deliverable handed to the user
DeliveredCount ==
    IF run.kind = "preview" THEN Len(pdf_preview_area)
    ELSE Len(returned.entries)

\* C1: when exactly one pair of a run fails, the deliverable holds the
\* outputs of the other T*R-1 pairs, each as it would have been without the
\* failure.
C1_FailureIsolated ==
    (RunDone /\ run.failed = 1 /\ Len(run.configs) >= run.T) =>
        IF run.kind = "preview"
        THEN pdf_preview_area =
                 [i \in 1..(run.T * run.R - 1) |->
                     ExpectedCard(IF i < FailedPair THEN i ELSE i + 1)]
        ELSE returned =
                 [zip |-> TRUE,
                  entries |->
                      [i \in 1..(run.T * run.R - 1) |->
                          ExpectedEntry(IF i < FailedPair THEN i ELSE i + 1)]]

\* C2: a run with T templates and R selected records that ends without an
\* exception delivers exactly T*R entries: T*R cards in the preview area, or
\* an archive of T*R entries.
C2_AllPairsDelivered ==
    (RunDone /\ run.ended = "ok") =>
        /\ DeliveredCount = run.T * run.R
        /\ run.kind = "download" => returned.zip

\* A package run of 2 templates and 2 records, two entries sharing a name
C2_Witness ==
    /\ RunDone
    /\ run.ended = "ok"
    /\ run.kind = "download"
    /\ run.T = 2
    /\ run.R = 2
    /\ \E i, j \in 1..Len(returned.entries) :
           i # j /\ returned.entries[i].name = returned.entries[j].name

\* The preconditions of a run: a non-empty dataset, a template, a selection
PreconditionsMet ==
    /\ excel_data # NoData
    /\ NumRows(excel_data) > 0
    /\ templates # <<>>
    /\ selection # <<>>

\* C16: a run triggered while a precondition is unmet is a no-op with a
\* warning: it ends at once, no pair is processed, no error is reported, a
\* warning is emitted, and the dataset, the templates and the previews shown
\* before stay as they were.
C16_UnmetPreconditionIsNoOp ==
    [][(run.pc = "idle" /\ run'.pc # "idle" /\ ~PreconditionsMet)
          => /\ run'.pc = "done"
             /\ run'.ended # "error"
             /\ status'.kind # "Error"
             /\ notification' = "warning"
             /\ excel_data' = excel_data
             /\ templates' = templates
             /\ pdf_preview_area' = pdf_preview_area]_vars

\* C17: when a run has ended, on whatever exit path, no temporary file or
\* directory created during a run is left on disk.
C17_TempFilesRemoved ==
    RunDone => tmp_files = {}

\* The row positions of rows in ascending order (dataset order)
RECURSIVE Ascending(_)
Ascending(rows) ==
    IF rows = <<>> THEN <<>>
    ELSE LET least == CHOOSE k \in 1..Len(rows) :
                          \A j \in 1..Len(rows) : rows[k] <= rows[j]
         IN  <<rows[least]>>
             \o Ascending([j \in 1..(Len(rows) - 1) |->
                               IF j < least THEN rows[j] ELSE rows[j + 1]])

\* What the i-th pair yields when the pairs go template by template in
\* upload order and, within a template, record by record in dataset order
OrderedCard(i) ==
    PreviewCard(run.configs[PairTemplate(i)].Naming_Template,
                templates[PairTemplate(i)].bytes,
                RowData(excel_data, Ascending(run.rows)[PairRecord(i)]))

OrderedEntry(i) ==
    ZipEntry(run.configs[PairTemplate(i)].Naming_Template,
             templates[PairTemplate(i)].bytes,
             RowData(excel_data, Ascending(run.rows)[PairRecord(i)]))

\* C18: a run that ends without an exception has processed its pairs
\* template by template in upload order and, within a template, the
\* selected records in ascending row position, whatever the order of the
\* selection; the preview area (and the archive) lists them in that order.
C18_TemplateThenDatasetOrder ==
    (RunDone /\ run.ended = "ok") =>
        IF run.kind = "preview"
        THEN pdf_preview_area = [i \in 1..(run.T * run.R) |-> OrderedCard(i)]
        ELSE returned.entries = [i \in 1..(run.T * run.R) |-> OrderedEntry(i)]

RowsAligned(tpls, table) ==
    /\ Len(table) = Len(tpls)
    /\ \A i \in 1..Len(tpls) : table[i].File_Name = tpls[i].File_Name

\* C21: the template list and the template table stay index-aligned after
\* every template upload (also one that failed) and every clear: same
\* length, row i carrying the file name of templates[i]; so a run finds a
\* row for each template and pairs each template with its own pattern.
C21_TemplatesAligned ==
    /\ RowsAligned(templates, template_table)
    /\ run.pc = "running" => RowsAligned(templates, run.configs)
    /\ RunDone => status.msg # "IndexError"

\* One template stored, after a template upload that failed on a dataset
\* without columns
C21_Witness ==
    /\ Idle
    /\ Len(templates) = 1
    /\ excel_data # NoData
    /\ excel_data.columns = <<>>
    /\ status.kind = "Error"
    /\ status.msg = "IndexError"

\* C22: when no handler is running, the preview button and the download
\* control are enabled exactly if a non-empty dataset is stored, a template
\* is stored and a row is selected.
C22_ControlsMatchPreconditions ==
    Idle =>
        /\ preview_btn_disabled = ~PreconditionsMet
        /\ file_download_disabled = ~PreconditionsMet

\* The status texts that state a count of generated documents
CountKinds == {"GeneratedPreviews", "GeneratedDocuments"}

\* C3: at the end of a run the deliverable holds as many entries as pairs
\* succeeded, and the status states that number.
C3_EntriesMatchSucceeded ==
    RunDone =>
        /\ DeliveredCount = run.ok
        /\ status.kind \in CountKinds
        /\ status.n = run.ok

\* No status text of the application says that pairs were skipped
StatesSkipped(st) == st.kind = "GeneratedSomeSkipped"

\* C4: a run ends with the status at a final outcome that states the
\* count of successes and, if a pair failed, that some were skipped; never
\* at the 'generating' text.
C4_FinalStatus ==
    RunDone =>
        /\ status.kind # "GeneratingPreviews"
        /\ status.kind \in CountKinds \/ StatesSkipped(status)
        /\ run.failed > 0 => StatesSkipped(status)

====
